---------------------------- MODULE Spec2Model ----------------------------
(***************************************************************************)
(* ElasticRateLimiter and its RED congestion manager                       *)
(* (src/unnamed/part_000, package util).                                   *)
(*                                                                         *)
(* A capacityQueue is a buffered Go channel of interchangeable tokens, so  *)
(* it is modelled by the number of tokens it holds.  Queue 0 is            *)
(* sharedCapacity; queues 1..MaxQueues are the reservation queues made by  *)
(* openReservation, in order of creation.  A queue object lives on after   *)
(* closeReservation removed it from capacityByClient: guards and           *)
(* goroutines keep their reference to it.                                  *)
(*                                                                         *)
(* Every goroutine step below is one channel operation or one critical     *)
(* section of clientLock; purely local computation is merged into the      *)
(* step that precedes it.                                                  *)
(***************************************************************************)
EXTENDS Integers, Sequences, FiniteSets, TLC

\* ------------------------------------------------------------------ bounds
NumClients == 2
NumCallers == 2
MaxQueues == 2
MaxCap == 2
\* the callers and clients that act when the congestion manager is attached
CMCallers == 1
CMClients == 1
\* the run goroutines started when the manager is attached to a limiter
CMStarts == 1
\* the callers and clients that act under fair scheduling
FairCallers == 1
FairClients == 1
\* the model's capacity of the manager's three channels (the code's is ChanCapacity)
ChanCap == 1
\* the run goroutines Start may spawn, the timestamps a list may hold
MaxStarts == 2
MaxList == 1
MaxTime == 2
\* rand.Float64() is drawn from {0, 1/RandDen, ..., (RandDen-1)/RandDen}
RandDen == 2
\* the windows (in clock units) and refresh periods a manager is constructed with
MaxWindow == 2
MaxRefresh == 2
\* the callers and clients of a manager used on its own
REDCallers == 2
REDClients == 1
\* the run goroutines started while time passes
REDStarts == 1
\* the copies made of guards, over the tokens there are
MaxCopies == 1
MaxCalls == 5
MaxPrune == 3
LongList == 2
\* the arrival counts compared with one another
MaxArrivals == 4
\* time.Second, in clock units: the clock counts half seconds
Second == 2
\* redCongestionManager.exp as NewREDCongestionManager sets it
Exp == 4

Clients == 1..NumClients
Callers == 1..NumCallers
SharedQ == 0
NoQ == -1
NilCounter == -1
NoLog == <<"off">>
\* a deadlock.RWMutex nobody holds
Unlocked == [w |-> <<>>, r |-> {}]
ResQueues == 1..MaxQueues
Queues == 0..MaxQueues

VARIABLES
    MaxCapacity,            \* ElasticRateLimiter.MaxCapacity
    CapacityPerReservation, \* ElasticRateLimiter.CapacityPerReservation
    cm,                     \* ElasticRateLimiter.cm: "nil" or "red"
    enableCM,               \* ElasticRateLimiter.enableCM
    clientLock,             \* ElasticRateLimiter.clientLock: its writer and its readers
    noCapacityCounter,      \* *metrics.Counter: NilCounter or its value
    congestionControlCounter,
    releaseFailed,          \* history: some Release has returned an error
    chan,                   \* tokens in each capacityQueue (chan[SharedQ] is sharedCapacity)
    nq,                     \* number of reservation queues made so far
    capacityByClient,       \* ElasticRateLimiter.capacityByClient: client -> queue or NoQ
    onClose,                \* callbacks registered with c.OnClose and not yet invoked
    guards,                 \* outstanding ErlCapacityGuards, by the queue in their cq field
    fill,                   \* openReservation's goroutine, by reservation queue
    drain,                  \* closeReservation's goroutine, by reservation queue
    pc,                     \* each ConsumeCapacity caller's position
    cl,                     \* ... its argument c
    cq,                     \* ... its local q
    cen,                    \* ... its local enableCM
    ct,                     \* ... the time.Now() it read for Consumed
    held,                   \* history: guards of q outstanding when q.consume failed
    ret,                    \* ... what its last call returned
    log,                    \* history: the results of the calls so far, when logging
    window,                 \* redCongestionManager.window, in clock units
    targetRateRefreshTicks, \* redCongestionManager.targetRateRefreshTicks
    running,                \* redCongestionManager.running
    consumed,               \* redCongestionManager.consumed: chan event
    served,                 \* redCongestionManager.served: chan event
    shouldDropQueries,      \* redCongestionManager.shouldDropQueries
    reply,                  \* the ret channel of each caller's shouldDropQuery
    loops,                  \* the run goroutines started so far, with their locals
    cmFields,               \* redCongestionManager.targetRate, consumedByClient, serves
    now                     \* the clock, in units of half a second

confVars == <<MaxCapacity, CapacityPerReservation, cm, window, targetRateRefreshTicks>>
tokVars == <<chan, guards>>
mapVars == <<nq, capacityByClient, onClose>>
taskVars == <<fill, drain>>
cntVars == <<noCapacityCounter, congestionControlCounter, releaseFailed>>
callVars == <<pc, cl, cq, cen, ct, held, ret, log>>
chVars == <<consumed, served, shouldDropQueries>>
redVars == <<running, reply, loops, cmFields>>
vars == <<confVars, clientLock, enableCM, tokVars, mapVars, taskVars, cntVars, callVars,
          chVars, redVars, now>>

\* ----------------------------------------------------------- capacityQueue
sharedCapacity == chan[SharedQ]

\* cap(q): make(chan capacity, maxCapacity) / make(chan capacity, erl.CapacityPerReservation)
QCap(q) == IF q = SharedQ THEN MaxCapacity ELSE CapacityPerReservation

\* a receive from q can proceed
CanTake(q) == chan[q] > 0
\* a send to q can proceed
CanPut(q) == chan[q] < QCap(q)

\* the sum of f over the set S
RECURSIVE SumOver(_, _)
SumOver(f, S) ==
    IF S = {} THEN 0
    ELSE LET x == CHOOSE y \in S : TRUE IN f[x] + SumOver(f, S \ {x})

\* tokens a transfer goroutine holds between its take and its put
InFlight == Cardinality({q \in ResQueues : fill[q].pc = "put"})
            + Cardinality({q \in ResQueues : drain[q].pc = "put"})

NoTask == [pc |-> "none", i |-> 0]
\* the goroutine `for i := 0; i < erl.CapacityPerReservation; i++ { take; put }`
TaskAt(i) == [pc |-> IF i < CapacityPerReservation THEN "take" ELSE "done", i |-> i]

Reservations == {c \in Clients : capacityByClient[c] # NoQ}

\* ------------------------------------------------------------------- Init
\* NewElasticRateLimiter(maxCapacity, reservedCapacity, cm, nocapCount, conmanCount)
NewElasticRateLimiter(max, per, m, nocap, conman) ==
    /\ MaxCapacity = max
    /\ CapacityPerReservation = per
    /\ cm = m
    /\ enableCM = FALSE
    /\ clientLock = Unlocked
    /\ noCapacityCounter = nocap
    /\ congestionControlCounter = conman
    /\ chan = [q \in Queues |-> IF q = SharedQ THEN max ELSE 0]
    /\ guards = [q \in Queues |-> 0]
    /\ nq = 0
    /\ capacityByClient = [c \in Clients |-> NoQ]
    /\ onClose = [c \in Clients |-> 0]
    /\ fill = [q \in ResQueues |-> NoTask]
    /\ drain = [q \in ResQueues |-> NoTask]

InitCallers(l) ==
    /\ pc = [t \in Callers |-> "idle"]
    /\ cl = [t \in Callers |-> 1]
    /\ cq = [t \in Callers |-> NoQ]
    /\ cen = [t \in Callers |-> FALSE]
    /\ ct = [t \in Callers |-> 0]
    /\ held = [t \in Callers |-> 0]
    /\ ret = [t \in Callers |-> "none"]
    /\ log = l
    /\ releaseFailed = FALSE

\* NewREDCongestionManager(d, r)
NewREDCongestionManager(d, r) ==
    /\ window = d
    /\ targetRateRefreshTicks = r
    /\ running = FALSE
    /\ consumed = <<>>
    /\ served = <<>>
    /\ shouldDropQueries = <<>>
    /\ reply = [t \in Callers |-> "none"]
    /\ loops = <<>>
    /\ cmFields = [targetRate |-> [n |-> 0, d |-> 1], consumedByClient |-> <<>>,
                   serves |-> <<>>]
    /\ now = 0

\* the constructions explored: 0 <= CapacityPerReservation <= MaxCapacity <= MaxCap
Configs == {k \in [max : 0..MaxCap, per : 0..MaxCap] : k.per <= k.max}

Init ==
    /\ \E k \in Configs : NewElasticRateLimiter(k.max, k.per, "nil", NilCounter, NilCounter)
    /\ InitCallers(NoLog)
    /\ NewREDCongestionManager(1, 1)

\* ---------------------------------------------------------------- Release
\* a Release that leaves the guard usable for another Release
ReleaseReusable(q) ==
    /\ guards[q] > 0
    /\ IF CanPut(q)
         THEN /\ chan' = [chan EXCEPT ![q] = @ + 1]
              /\ UNCHANGED releaseFailed
         ELSE /\ UNCHANGED chan
              /\ releaseFailed' = TRUE
    /\ UNCHANGED <<confVars, clientLock, enableCM, guards, mapVars, taskVars, noCapacityCounter,
                   congestionControlCounter, callVars, chVars, redVars, now>>

\* a Release that puts the token into sharedCapacity whatever the guard's queue
ReleaseToShared(q) ==
    /\ guards[q] > 0
    /\ guards' = [guards EXCEPT ![q] = @ - 1]
    /\ IF CanPut(SharedQ)
         THEN /\ chan' = [chan EXCEPT ![SharedQ] = @ + 1]
              /\ UNCHANGED releaseFailed
         ELSE /\ UNCHANGED chan
              /\ releaseFailed' = TRUE
    /\ UNCHANGED <<confVars, clientLock, enableCM, mapVars, taskVars, noCapacityCounter,
                   congestionControlCounter, callVars, chVars, redVars, now>>

\* ErlCapacityGuard is a value: its holder copies it, and each copy can be released
CopyGuard(q) ==
    /\ guards[q] > 0
    /\ SumOver(chan, Queues) + SumOver(guards, Queues) + InFlight
          < MaxCapacity + MaxCopies
    /\ guards' = [guards EXCEPT ![q] = @ + 1]
    /\ UNCHANGED <<confVars, clientLock, enableCM, chan, mapVars, taskVars, cntVars, callVars,
                   chVars, redVars, now>>

\* ErlCapacityGuard.Release: a non-blocking put into the guard's queue; the
\* guard is used up whether or not the put succeeded
Release(q) ==
    /\ guards[q] > 0
    /\ guards' = [guards EXCEPT ![q] = @ - 1]
    /\ IF CanPut(q)
         THEN /\ chan' = [chan EXCEPT ![q] = @ + 1]
              /\ UNCHANGED releaseFailed
         ELSE /\ UNCHANGED chan
              /\ releaseFailed' = TRUE
    /\ UNCHANGED <<confVars, clientLock, enableCM, mapVars, taskVars, noCapacityCounter,
                   congestionControlCounter, callVars, chVars, redVars, now>>

\* -------------------------------------------------- the transfer goroutines
\* FillTake with the take from sharedCapacity left out
FillTakeNoConsume(q) ==
    /\ fill[q].pc = "take"
    /\ fill' = [fill EXCEPT ![q].pc = "put"]
    /\ UNCHANGED <<confVars, clientLock, enableCM, tokVars, mapVars, drain, cntVars, callVars,
                   chVars, redVars, now>>

\* erl.sharedCapacity.blockingConsume() in openReservation's goroutine
FillTake(q) ==
    /\ fill[q].pc = "take"
    /\ CanTake(SharedQ)
    /\ chan' = [chan EXCEPT ![SharedQ] = @ - 1]
    /\ fill' = [fill EXCEPT ![q].pc = "put"]
    /\ UNCHANGED <<confVars, clientLock, enableCM, guards, mapVars, drain, cntVars, callVars,
                   chVars, redVars, now>>

\* q.blockingRelease() in openReservation's goroutine, and the loop's i++
FillPut(q) ==
    /\ fill[q].pc = "put"
    /\ CanPut(q)
    /\ chan' = [chan EXCEPT ![q] = @ + 1]
    /\ fill' = [fill EXCEPT ![q] = TaskAt(fill[q].i + 1)]
    /\ UNCHANGED <<confVars, clientLock, enableCM, guards, mapVars, drain, cntVars, callVars,
                   chVars, redVars, now>>

\* the drain taking with the non-blocking consume: an empty queue counts as drained
DrainTakeNoWait(q) ==
    /\ drain[q].pc = "take"
    /\ chan' = IF CanTake(q) THEN [chan EXCEPT ![q] = @ - 1] ELSE chan
    /\ drain' = IF CanTake(q) THEN [drain EXCEPT ![q].pc = "put"]
                ELSE [drain EXCEPT ![q] = TaskAt(drain[q].i + 1)]
    /\ UNCHANGED <<confVars, clientLock, enableCM, guards, mapVars, fill, cntVars, callVars,
                   chVars, redVars, now>>

\* q.blockingConsume() in closeReservation's goroutine
DrainTake(q) ==
    /\ drain[q].pc = "take"
    /\ CanTake(q)
    /\ chan' = [chan EXCEPT ![q] = @ - 1]
    /\ drain' = [drain EXCEPT ![q].pc = "put"]
    /\ UNCHANGED <<confVars, clientLock, enableCM, guards, mapVars, fill, cntVars, callVars,
                   chVars, redVars, now>>

\* erl.sharedCapacity.blockingRelease() in closeReservation's goroutine, and i++
DrainPut(q) ==
    /\ drain[q].pc = "put"
    /\ CanPut(SharedQ)
    /\ chan' = [chan EXCEPT ![SharedQ] = @ + 1]
    /\ drain' = [drain EXCEPT ![q] = TaskAt(drain[q].i + 1)]
    /\ UNCHANGED <<confVars, clientLock, enableCM, guards, mapVars, fill, cntVars, callVars,
                   chVars, redVars, now>>

\* ------------------------------------------------ openReservation / close
\* remaining := erl.MaxCapacity - (erl.CapacityPerReservation * len(erl.capacityByClient))
Remaining == MaxCapacity - CapacityPerReservation * Cardinality(Reservations)

\* the guard with the reservations already made left out of the count
OverprovisionedNoCount == CapacityPerReservation > MaxCapacity

\* the guard off by one token
OverprovisionedOffByOne == CapacityPerReservation > Remaining + 1

\* the overprovisioning guard of openReservation: erl.CapacityPerReservation > remaining
Overprovisioned == CapacityPerReservation > Remaining

\* openReservation without its test of the map
OpenResultNoExistsTest(c) ==
    IF Overprovisioned THEN "errNoReservationCapacity" ELSE "ok"

\* openReservation(c): "ok" or the error it returns
OpenResult(c) ==
    IF capacityByClient[c] # NoQ THEN "errAlreadyReserved"
    ELSE IF Overprovisioned THEN "errNoReservationCapacity"
    ELSE "ok"

\* openReservation(c) when it succeeds: the new queue, the map entry, the goroutine
OpenReservation(c) ==
    /\ nq' = nq + 1
    /\ capacityByClient' = [capacityByClient EXCEPT ![c] = nq + 1]
    /\ fill' = [fill EXCEPT ![nq + 1] = TaskAt(0)]

\* closeReservation that deletes the map entry and starts no goroutine
closeReservationNoDrain(c) ==
    /\ capacityByClient' = [capacityByClient EXCEPT ![c] = NoQ]
    /\ UNCHANGED drain

\* closeReservation(c): the map entry deleted and the draining goroutine started,
\* or nothing when c has no reservation
closeReservation(c) ==
    IF capacityByClient[c] = NoQ \/ capacityByClient[c] = SharedQ
      THEN UNCHANGED <<capacityByClient, drain>>
      ELSE /\ capacityByClient' = [capacityByClient EXCEPT ![c] = NoQ]
           /\ drain' = [drain EXCEPT ![capacityByClient[c]] = TaskAt(0)]

\* the client disconnects and runs a callback it was given: erl.closeReservation(c)
CloseReservationWith(c, lk) ==
    /\ onClose[c] > 0
    /\ onClose' = [onClose EXCEPT ![c] = @ - 1]
    /\ closeReservation(c)
    /\ clientLock' = lk
    /\ UNCHANGED <<confVars, enableCM, tokVars, nq, fill, cntVars, callVars,
                   chVars, redVars, now>>

\* ... closeReservation's locked section in one step
CloseReservation(c) == CloseReservationWith(c, clientLock)

\* openReservation(c) called on its own, as the package's tests do
DirectOpen(c) ==
    /\ nq < MaxQueues
    /\ IF OpenResult(c) = "ok"
         THEN OpenReservation(c)
         ELSE UNCHANGED <<nq, capacityByClient, fill>>
    /\ UNCHANGED <<confVars, clientLock, enableCM, tokVars, onClose, drain, cntVars, callVars,
                   chVars, redVars, now>>

\* closeReservation(c) called on its own
DirectClose(c) ==
    /\ closeReservation(c)
    /\ UNCHANGED <<confVars, clientLock, enableCM, tokVars, nq, onClose, fill, cntVars, callVars,
                   chVars, redVars, now>>

\* EnableCongestionControl / DisableCongestionControl
SetCongestionControlWith(b, lk) ==
    /\ enableCM # b
    /\ enableCM' = b
    /\ clientLock' = lk
    /\ UNCHANGED <<confVars, tokVars, mapVars, taskVars, cntVars, callVars,
                   chVars, redVars, now>>

\* ... the locked section in one step
SetCongestionControl(b) == SetCongestionControlWith(b, clientLock)

\* ------------------------------------------------------- ConsumeCapacity
Inc(counter) == IF counter = NilCounter THEN NilCounter ELSE counter + 1

\* ConsumeCapacity returns r to caller t
Return(t, r) ==
    /\ pc' = [pc EXCEPT ![t] = "idle"]
    /\ ret' = [ret EXCEPT ![t] = r]
    /\ log' = IF log = NoLog THEN NoLog ELSE Append(log, r)
    /\ cl' = [cl EXCEPT ![t] = 1]
    /\ cq' = [cq EXCEPT ![t] = NoQ]
    /\ cen' = [cen EXCEPT ![t] = FALSE]
    /\ ct' = [ct EXCEPT ![t] = 0]
    /\ held' = [held EXCEPT ![t] = 0]

\* caller t moves on to position p
Goto(t, p) ==
    /\ pc' = [pc EXCEPT ![t] = p]
    /\ UNCHANGED <<cl, cen, ret, log>>

\* a guard for queue q comes into being: `case <-q: return ErlCapacityGuard{cq: q, ...}`
TakeGuard(q) ==
    /\ chan' = [chan EXCEPT ![q] = @ - 1]
    /\ guards' = [guards EXCEPT ![q] = @ + 1]

\* callers that are about to run openReservation
Opening == {t \in Callers : pc[t] = "open"}

\* the read-locked head of ConsumeCapacity: q, exists = capacityByClient[c]; enableCM
CallWith(t, c, lk) ==
    /\ pc[t] = "idle"
    /\ capacityByClient[c] = NoQ => nq + Cardinality(Opening) < MaxQueues
    /\ pc' = [pc EXCEPT ![t] = IF capacityByClient[c] # NoQ THEN "reserved" ELSE "open"]
    /\ cl' = [cl EXCEPT ![t] = c]
    /\ cq' = [cq EXCEPT ![t] = capacityByClient[c]]
    /\ cen' = [cen EXCEPT ![t] = enableCM]
    /\ ret' = [ret EXCEPT ![t] = "none"]
    /\ clientLock' = lk
    /\ UNCHANGED <<confVars, enableCM, tokVars, mapVars, taskVars, cntVars,
                   ct, held, log, chVars, redVars, now>>

\* ... the whole read-locked section in one step
Call(t, c) == CallWith(t, c, clientLock)

\* Step 0: q, err = erl.openReservation(c); if err != nil return
ConsumeOpenWith(t, lk) ==
    /\ pc[t] = "open"
    /\ IF OpenResult(cl[t]) = "ok"
         THEN /\ OpenReservation(cl[t])
              /\ cq' = [cq EXCEPT ![t] = nq + 1]
              /\ Goto(t, "onclose")
              /\ UNCHANGED <<ct, held>>
         ELSE /\ Return(t, OpenResult(cl[t]))
              /\ UNCHANGED <<nq, capacityByClient, fill>>
    /\ clientLock' = lk
    /\ UNCHANGED <<confVars, enableCM, tokVars, onClose, drain, cntVars,
                   chVars, redVars, now>>

\* ... openReservation's locked section in one step
ConsumeOpen(t) == ConsumeOpenWith(t, clientLock)

\* c.OnClose(func() { erl.closeReservation(c) })
ConsumeOnClose(t) ==
    /\ pc[t] = "onclose"
    /\ onClose' = [onClose EXCEPT ![cl[t]] = @ + 1]
    /\ Goto(t, "blocking")
    /\ UNCHANGED <<confVars, clientLock, enableCM, tokVars, nq, capacityByClient, taskVars,
                   cntVars, cq, ct, held, chVars, redVars, now>>

\* q.blockingConsume(); return ErlCapacityGuard{cq: q, cm: &erl.cm}, nil
ConsumeBlocking(t) ==
    /\ pc[t] = "blocking"
    /\ CanTake(cq[t])
    /\ TakeGuard(cq[t])
    /\ Return(t, "guard")
    /\ UNCHANGED <<confVars, clientLock, enableCM, mapVars, taskVars, cntVars, chVars, redVars, now>>

\* a call that returns its guard without telling the manager
AfterTakeNoNotify(t) == Return(t, "guard")

\* where a call goes once it holds a guard: erl.cm.Consumed(c, time.Now()) if a
\* manager is attached, else it returns
AfterTake(t) ==
    IF cm # "nil"
      THEN /\ Goto(t, "consumed")
           /\ ct' = [ct EXCEPT ![t] = now]
           /\ UNCHANGED <<cq, held>>
      ELSE Return(t, "guard")

\* Step 2 testing the limiter's flag as it is now, not the call's snapshot
ConsumeReservedLiveFlag(t) ==
    /\ pc[t] = "reserved"
    /\ IF CanTake(cq[t])
         THEN /\ TakeGuard(cq[t])
              /\ AfterTake(t)
         ELSE /\ Goto(t, IF cm # "nil" /\ enableCM THEN "query" ELSE "shared")
              /\ held' = [held EXCEPT ![t] = guards[cq[t]]]
              /\ UNCHANGED <<tokVars, cq, ct>>
    /\ UNCHANGED <<confVars, clientLock, enableCM, mapVars, taskVars, cntVars, chVars, redVars, now>>

\* Step 1: cg, err := q.consume(&erl.cm); Step 2's test of erl.cm and enableCM
ConsumeReserved(t) ==
    /\ pc[t] = "reserved"
    /\ IF CanTake(cq[t])
         THEN /\ TakeGuard(cq[t])
              /\ AfterTake(t)
         ELSE /\ Goto(t, IF cm # "nil" /\ cen[t] THEN "query" ELSE "shared")
              /\ held' = [held EXCEPT ![t] = guards[cq[t]]]
              /\ UNCHANGED <<tokVars, cq, ct>>
    /\ UNCHANGED <<confVars, clientLock, enableCM, mapVars, taskVars, cntVars, chVars, redVars, now>>

\* Step 3 counting every visit of the shared pool, the successful ones too
ConsumeSharedCountsTakes(t) ==
    /\ pc[t] = "shared"
    /\ noCapacityCounter' = Inc(noCapacityCounter)
    /\ IF CanTake(SharedQ)
         THEN /\ TakeGuard(SharedQ)
              /\ AfterTake(t)
         ELSE /\ Return(t, "errNoCapacity")
              /\ UNCHANGED tokVars
    /\ UNCHANGED <<confVars, clientLock, enableCM, mapVars, taskVars, congestionControlCounter,
                   releaseFailed,
                   chVars, redVars, now>>

\* Step 3: cg, err = erl.sharedCapacity.consume(&erl.cm)
ConsumeShared(t) ==
    /\ pc[t] = "shared"
    /\ IF CanTake(SharedQ)
         THEN /\ TakeGuard(SharedQ)
              /\ AfterTake(t)
              /\ UNCHANGED noCapacityCounter
         ELSE /\ noCapacityCounter' = Inc(noCapacityCounter)
              /\ Return(t, "errNoCapacity")
              /\ UNCHANGED tokVars
    /\ UNCHANGED <<confVars, clientLock, enableCM, mapVars, taskVars, congestionControlCounter,
                   releaseFailed,
                   chVars, redVars, now>>

\* cm.Consumed(c, t): a non-blocking put on cm.consumed, the event dropped when full
ConsumeNotify(t) ==
    /\ pc[t] = "consumed"
    /\ consumed' = IF Len(consumed) < ChanCap
                     THEN Append(consumed, [c |-> cl[t], t |-> ct[t]])
                     ELSE consumed
    /\ Return(t, "guard")
    /\ UNCHANGED <<confVars, clientLock, enableCM, tokVars, mapVars, taskVars, cntVars,
                   served, shouldDropQueries, redVars, now>>

\* cm.ShouldDrop(c) up to its select: the query is put on cm.shouldDropQueries,
\* or, the channel full, the answer is false
ConsumeQuery(t) ==
    /\ pc[t] = "query"
    /\ IF Len(shouldDropQueries) < ChanCap
         THEN /\ shouldDropQueries' = Append(shouldDropQueries, [c |-> cl[t], ret |-> t])
              /\ Goto(t, "reply")
         ELSE /\ UNCHANGED shouldDropQueries
              /\ Goto(t, "shared")
    /\ UNCHANGED <<confVars, clientLock, enableCM, tokVars, mapVars, taskVars, cntVars,
                   cq, ct, held, consumed, served, redVars, now>>

\* cm.ShouldDrop(c) from `return <-ret` on, and Step 2's return
ConsumeReply(t) ==
    /\ pc[t] = "reply"
    /\ reply[t] # "none"
    /\ reply' = [reply EXCEPT ![t] = "none"]
    /\ IF reply[t] = "drop"
         THEN /\ congestionControlCounter' = Inc(congestionControlCounter)
              /\ Return(t, "errCongestion")
         ELSE /\ Goto(t, "shared")
              /\ UNCHANGED <<congestionControlCounter, cq, ct, held>>
    /\ UNCHANGED <<confVars, clientLock, enableCM, tokVars, mapVars, taskVars, noCapacityCounter,
                   releaseFailed,
                   chVars, running, loops, cmFields, now>>

\* ErlCapacityGuard.Served, by the holder of an outstanding guard
Served ==
    /\ cm # "nil"
    /\ \E q \in Queues : guards[q] > 0
    /\ served' = IF Len(served) < ChanCap THEN Append(served, now) ELSE served
    /\ UNCHANGED <<confVars, clientLock, enableCM, tokVars, mapVars, taskVars, cntVars, callVars,
                   consumed, shouldDropQueries, redVars, now>>

\* ------------------------------------------------------ float64 arithmetic
\* A non-negative float64 is the fraction n/d; d = 0 is +Inf (n > 0) or NaN (n = 0),
\* which is what IEEE division by zero gives.  Rounding is not modelled.
F(k) == [n |-> k, d |-> 1]
FDiv(a, b) == [n |-> a.n * b.d, d |-> a.d * b.n]
\* x == 0
FIsZero(x) == x.n = 0 /\ x.d # 0
\* a > b
FGt(a, b) == IF a.d = 0 THEN a.n > 0 /\ b.d # 0 ELSE a.n * b.d > b.n * a.d
\* math.Pow(x, cm.exp)
FPow(x) == [n |-> x.n ^ Exp, d |-> x.d ^ Exp]

\* rand.Float64(): a value in [0, 1)
Draws == {[n |-> k, d |-> RandDen] : k \in 0..(RandDen - 1)}

\* ------------------------------------------------- redCongestionManager
\* float64(cm.window/time.Second): an integer division of durations
WindowSecs == window \div Second

\* the least index of ts whose timestamp is after cutoff, Len(ts) + 1 if none
RECURSIVE FirstAfter(_, _, _)
FirstAfter(ts, cutoff, i) ==
    IF i > Len(ts) THEN i
    ELSE IF ts[i] > cutoff THEN i
    ELSE FirstAfter(ts, cutoff, i + 1)

\* a prune that keeps the timestamps at the cutoff as well
pruneInclusive(ts, cutoff) == LET Keep(t) == t >= cutoff IN SelectSeq(ts, Keep)

\* a prune that cuts nothing off
pruneNothing(ts, cutoff) == ts

\* prune(ts, cutoff): the list it leaves in *ts
prune(ts, cutoff) == SubSeq(ts, FirstAfter(ts, cutoff, 1), Len(ts))

\* a call prune(p, cutoff), p a pointer: <<>> is nil, <<ts>> points to the list ts;
\* ts is what p is left as, n the int returned
pruneCall(p, cutoff) ==
    IF p = <<>> THEN [ts |-> <<>>, n |-> 0]
    ELSE [ts |-> <<prune(p[1], cutoff)>>, n |-> Len(prune(p[1], cutoff))]

\* cm.arrivalRateFor(arrivals); arrivals is <<>> for a nil pointer too
arrivalRateFor(arrivals) == FDiv(F(Len(arrivals)), F(WindowSecs))

\* a shouldDrop with the ratio upside down
shouldDropInverted(targetRate, arrivals, r) ==
    IF FIsZero(arrivalRateFor(arrivals)) THEN FALSE
    ELSE FGt(FDiv(FPow(targetRate), FPow(arrivalRateFor(arrivals))), r)

\* a shouldDrop that does not divide by a zero target rate
shouldDropZeroGuarded(targetRate, arrivals, r) ==
    IF FIsZero(arrivalRateFor(arrivals)) \/ FIsZero(targetRate) THEN FALSE
    ELSE FGt(FDiv(FPow(arrivalRateFor(arrivals)), FPow(targetRate)), r)

\* cm.shouldDrop(targetRate, c, arrivals), with r the value rand.Float64() returned
shouldDrop(targetRate, arrivals, r) ==
    IF FIsZero(arrivalRateFor(arrivals)) THEN FALSE
    ELSE FGt(FDiv(FPow(arrivalRateFor(arrivals)), FPow(targetRate)), r)

\* the locals of a run goroutine as it starts
NewLoop == [pc |-> "run", cancelled |-> FALSE, tick |-> 0, targetRate |-> F(0),
            consumedByClient |-> <<>>, serves |-> <<>>]

Lists(cbc, c) == IF c \in DOMAIN cbc THEN cbc[c] ELSE <<>>

\* `if tick == 0 || exit { ... }`: prune serves and every client's list, delete the
\* clients left with none, recompute targetRate
Refresh(lp) ==
    LET cutoff == now - window
        sv == prune(lp.serves, cutoff)
        keep == {c \in DOMAIN lp.consumedByClient :
                    Len(prune(lp.consumedByClient[c], cutoff)) # 0}
        cbc == [c \in keep |-> prune(lp.consumedByClient[c], cutoff)]
    IN  [lp EXCEPT !.serves = sv,
                   !.consumedByClient = cbc,
                   !.targetRate = IF Cardinality(keep) > 0
                                    THEN FDiv(FDiv(F(Len(sv)), F(WindowSecs)),
                                              F(Cardinality(keep)))
                                    ELSE F(0)]

\* an iteration that refreshes on tick 0 only, not on exit
EndIterationNoExitRefresh(lp, exit) ==
    LET t1 == [lp EXCEPT !.tick = (lp.tick + 1) % targetRateRefreshTicks]
        t2 == IF t1.tick = 0 THEN Refresh(t1) ELSE t1
    IN  IF exit THEN [t2 EXCEPT !.pc = "done"] ELSE t2

\* the rest of an iteration of run after its select: tick, the refresh, the exit
EndIteration(lp, exit) ==
    LET t1 == [lp EXCEPT !.tick = (lp.tick + 1) % targetRateRefreshTicks]
        t2 == IF t1.tick = 0 \/ exit THEN Refresh(t1) ELSE t1
    IN  IF exit THEN [t2 EXCEPT !.pc = "done"] ELSE t2

\* Start without its test of cm.running
StartUnchecked ==
    /\ Len(loops) < MaxStarts
    /\ running' = TRUE
    /\ loops' = Append(loops, NewLoop)
    /\ UNCHANGED <<confVars, clientLock, enableCM, tokVars, mapVars, taskVars, cntVars, callVars,
                   chVars, reply, cmFields, now>>

\* cm.Start(ctx, wg)
Start ==
    /\ running \/ Len(loops) < MaxStarts
    /\ IF running
         THEN UNCHANGED <<running, loops>>
         ELSE /\ running' = TRUE
              /\ loops' = Append(loops, NewLoop)
    /\ UNCHANGED <<confVars, clientLock, enableCM, tokVars, mapVars, taskVars, cntVars, callVars,
                   chVars, reply, cmFields, now>>

\* the context given to Start is cancelled
Cancel(l) ==
    /\ loops[l].pc = "run"
    /\ ~loops[l].cancelled
    /\ loops' = [loops EXCEPT ![l].cancelled = TRUE]
    /\ UNCHANGED <<confVars, clientLock, enableCM, tokVars, mapVars, taskVars, cntVars, callVars,
                   chVars, running, reply, cmFields, now>>

\* run: case e := <-cm.consumed, the client's list holding fewer than k timestamps
RunConsumedUpTo(l, k) ==
    /\ loops[l].pc = "run"
    /\ consumed # <<>>
    /\ Len(Lists(loops[l].consumedByClient, Head(consumed).c)) < k
    /\ consumed' = Tail(consumed)
    /\ LET e == Head(consumed)
           cbc == loops[l].consumedByClient
           ts == Append(Lists(cbc, e.c), e.t)
           lp == [loops[l] EXCEPT !.consumedByClient =
                     [c \in DOMAIN cbc \cup {e.c} |-> IF c = e.c THEN ts ELSE cbc[c]]]
       IN  loops' = [loops EXCEPT ![l] = EndIteration(lp, FALSE)]
    /\ UNCHANGED <<confVars, clientLock, enableCM, tokVars, mapVars, taskVars, cntVars, callVars,
                   served, shouldDropQueries, running, reply, cmFields, now>>

\* run: case e := <-cm.consumed
RunConsumed(l) == RunConsumedUpTo(l, MaxList)

\* run: case e := <-cm.served
RunServed(l) ==
    /\ loops[l].pc = "run"
    /\ served # <<>>
    /\ Len(loops[l].serves) < MaxList
    /\ served' = Tail(served)
    /\ LET lp == [loops[l] EXCEPT !.serves = Append(@, Head(served))]
       IN  loops' = [loops EXCEPT ![l] = EndIteration(lp, FALSE)]
    /\ UNCHANGED <<confVars, clientLock, enableCM, tokVars, mapVars, taskVars, cntVars, callVars,
                   consumed, shouldDropQueries, running, reply, cmFields, now>>

\* run: case query := <-cm.shouldDropQueries
RunQuery(l) ==
    /\ loops[l].pc = "run"
    /\ shouldDropQueries # <<>>
    /\ shouldDropQueries' = Tail(shouldDropQueries)
    /\ LET query == Head(shouldDropQueries)
           cbc == loops[l].consumedByClient
           ts == prune(Lists(cbc, query.c), now - window)
           lp == [loops[l] EXCEPT !.consumedByClient =
                     [c \in DOMAIN cbc |-> IF c = query.c THEN ts ELSE cbc[c]]]
       IN  /\ \E r \in Draws :
                reply' = [reply EXCEPT ![query.ret] =
                            IF shouldDrop(loops[l].targetRate, ts, r) THEN "drop" ELSE "pass"]
           /\ loops' = [loops EXCEPT ![l] = EndIteration(lp, FALSE)]
    /\ UNCHANGED <<confVars, clientLock, enableCM, tokVars, mapVars, taskVars, cntVars, callVars,
                   consumed, served, running, cmFields, now>>

\* run: case <-ctx.Done(), the last iteration, the three setters and cm.stop
RunDone(l) ==
    /\ loops[l].pc = "run"
    /\ loops[l].cancelled
    /\ LET lp == EndIteration(loops[l], TRUE)
       IN  /\ cmFields' = [targetRate |-> lp.targetRate,
                           consumedByClient |-> lp.consumedByClient,
                           serves |-> lp.serves]
           /\ loops' = [loops EXCEPT ![l] = [NewLoop EXCEPT !.pc = "done",
                                                          !.cancelled = TRUE]]
    /\ running' = FALSE
    /\ UNCHANGED <<confVars, clientLock, enableCM, tokVars, mapVars, taskVars, cntVars, callVars,
                   chVars, reply, now>>

\* time passes
Tick ==
    /\ now < MaxTime
    /\ now' = now + 1
    /\ UNCHANGED <<confVars, clientLock, enableCM, tokVars, mapVars, taskVars, cntVars, callVars,
                   chVars, redVars>>

\* Consumed with a plain send in place of its select: it waits for room
cmConsumedBlocking(c) ==
    /\ Len(consumed) < ChanCap
    /\ consumed' = Append(consumed, [c |-> c, t |-> now])
    /\ UNCHANGED <<confVars, clientLock, enableCM, tokVars, mapVars, taskVars, cntVars, callVars,
                   served, shouldDropQueries, redVars, now>>

\* cm.Consumed(c, time.Now()) called on the manager itself
cmConsumed(c) ==
    /\ consumed' = IF Len(consumed) < ChanCap
                     THEN Append(consumed, [c |-> c, t |-> now])
                     ELSE consumed
    /\ UNCHANGED <<confVars, clientLock, enableCM, tokVars, mapVars, taskVars, cntVars, callVars,
                   served, shouldDropQueries, redVars, now>>

\* cm.Served(time.Now()) called on the manager itself
cmServed ==
    /\ served' = IF Len(served) < ChanCap THEN Append(served, now) ELSE served
    /\ UNCHANGED <<confVars, clientLock, enableCM, tokVars, mapVars, taskVars, cntVars, callVars,
                   consumed, shouldDropQueries, redVars, now>>

\* cm.ShouldDrop(c) called on the manager itself, up to its select: the query is
\* put on cm.shouldDropQueries, or, the channel full, false is returned
cmShouldDrop(t, c) ==
    /\ pc[t] = "idle"
    /\ IF Len(shouldDropQueries) < ChanCap
         THEN /\ shouldDropQueries' = Append(shouldDropQueries, [c |-> c, ret |-> t])
              /\ pc' = [pc EXCEPT ![t] = "asked"]
              /\ ret' = [ret EXCEPT ![t] = "none"]
         ELSE /\ UNCHANGED <<shouldDropQueries, pc>>
              /\ ret' = [ret EXCEPT ![t] = "false"]
    /\ UNCHANGED <<confVars, clientLock, enableCM, tokVars, mapVars, taskVars, cntVars,
                   cl, cq, cen, ct, held, log, consumed, served, redVars, now>>

\* ... and its `return <-ret`
cmShouldDropReturn(t) ==
    /\ pc[t] = "asked"
    /\ reply[t] # "none"
    /\ reply' = [reply EXCEPT ![t] = "none"]
    /\ pc' = [pc EXCEPT ![t] = "idle"]
    /\ ret' = [ret EXCEPT ![t] = IF reply[t] = "drop" THEN "true" ELSE "false"]
    /\ UNCHANGED <<confVars, clientLock, enableCM, tokVars, mapVars, taskVars, cntVars,
                   cl, cq, cen, ct, held, log, chVars, running, loops, cmFields, now>>

\* the ElasticRateLimiter's steps, with callers ts calling for clients cs
NextERL(ts, cs) ==
    \/ \E q \in Queues : Release(q)
    \/ \E q \in ResQueues : FillTake(q) \/ FillPut(q) \/ DrainTake(q) \/ DrainPut(q)
    \/ \E c \in cs : CloseReservation(c)
    \/ \E t \in ts : \E c \in cs : Call(t, c)
    \/ \E t \in ts : ConsumeOpen(t) \/ ConsumeOnClose(t) \/ ConsumeBlocking(t)
    \/ \E t \in ts : ConsumeReserved(t) \/ ConsumeShared(t)

\* the steps that exist only with a congestion manager attached
NextCM(ts) ==
    \/ \E b \in BOOLEAN : SetCongestionControl(b)
    \/ \E t \in ts : ConsumeNotify(t) \/ ConsumeQuery(t) \/ ConsumeReply(t)
    \/ Served
    \/ (running \/ Len(loops) < CMStarts) /\ Start
    \/ \E l \in DOMAIN loops : Cancel(l) \/ RunDone(l)
    \/ \E l \in DOMAIN loops : RunConsumed(l) \/ RunServed(l) \/ RunQuery(l)

\* The limiter without a congestion manager: every caller, every client.
Next == NextERL(Callers, Clients)

Spec == Init /\ [][Next]_vars

\* The limiter with the RED manager attached, the clock standing still.
InitCM ==
    /\ \E k \in Configs : NewElasticRateLimiter(k.max, k.per, "red", NilCounter, NilCounter)
    /\ InitCallers(NoLog)
    /\ NewREDCongestionManager(Second, 1)

NextWithCM == NextERL(1..CMCallers, 1..CMClients) \/ NextCM(1..CMCallers)

SpecCM == InitCM /\ [][NextWithCM]_vars

\* The limiter with both counters supplied and every result logged: MaxCapacity =
\* CapacityPerReservation = 1, the RED manager attached, one caller after another
\* for either client, MaxCalls calls in all.
InitCount ==
    /\ NewElasticRateLimiter(1, 1, "red", 0, 0)
    /\ InitCallers(<<>>)
    /\ NewREDCongestionManager(Second, 1)

NextCount ==
    \/ \E q \in Queues : Release(q)
    \/ \E q \in ResQueues : FillTake(q) \/ FillPut(q) \/ DrainTake(q) \/ DrainPut(q)
    \/ \E c \in Clients : CloseReservation(c)
    \/ \E c \in Clients : Len(log) < MaxCalls /\ Call(1, c)
    \/ ConsumeOpen(1) \/ ConsumeOnClose(1) \/ ConsumeBlocking(1)
    \/ ConsumeReserved(1) \/ ConsumeShared(1)
    \/ NextCM({1})

SpecCount == InitCount /\ [][NextCount]_vars

\* Two callers of ConsumeCapacity for one client while time passes: MaxCapacity =
\* CapacityPerReservation = 2, the RED manager attached and started once, congestion
\* control off, the client's list growing to LongList timestamps.  No guard is
\* released while a call that has taken one has yet to return it.
InitStamp ==
    /\ NewElasticRateLimiter(2, 2, "red", NilCounter, NilCounter)
    /\ InitCallers(NoLog)
    /\ NewREDCongestionManager(Second, 1)

NextStamp ==
    \/ \E q \in Queues : (\A t \in Callers : pc[t] # "consumed") /\ Release(q)
    \/ \E q \in ResQueues : FillTake(q) \/ FillPut(q)
    \/ \E t \in Callers : Call(t, 1)
    \/ \E t \in Callers : ConsumeOpen(t) \/ ConsumeOnClose(t) \/ ConsumeBlocking(t)
    \/ \E t \in Callers : ConsumeReserved(t) \/ ConsumeShared(t) \/ ConsumeNotify(t)
    \/ (running \/ Len(loops) < REDStarts) /\ Start
    \/ \E l \in DOMAIN loops : RunConsumedUpTo(l, LongList)
    \/ Tick

SpecStamp == InitStamp /\ [][NextStamp]_vars

\* The RED manager on its own: producers call Consumed, Served and ShouldDrop,
\* Start is called and its context cancelled at any time, and time passes.
InitRED ==
    /\ NewElasticRateLimiter(0, 0, "red", NilCounter, NilCounter)
    /\ InitCallers(NoLog)
    /\ \E d \in 1..MaxWindow : \E r \in 1..MaxRefresh : NewREDCongestionManager(d, r)

\* the callers of the manager's methods
Producers ==
    \/ \E c \in 1..REDClients : cmConsumed(c)
    \/ cmServed
    \/ \E t \in 1..REDCallers : \E c \in 1..REDClients : cmShouldDrop(t, c)
    \/ \E t \in 1..REDCallers : cmShouldDropReturn(t)

\* the steps of the run goroutines
RunLoops ==
    \/ \E l \in DOMAIN loops : Cancel(l) \/ RunDone(l)
    \/ \E l \in DOMAIN loops : RunConsumed(l) \/ RunServed(l) \/ RunQuery(l)

NextRED ==
    \/ Producers
    \/ (running \/ Len(loops) < REDStarts) /\ Start
    \/ RunLoops
    \/ Tick

SpecRED == InitRED /\ [][NextRED]_vars

\* Go's select chooses at random among the cases that can proceed: a loop whose
\* context is cancelled takes the ctx.Done() case in the end.
LoopFairness == \A l \in 1..MaxStarts : WF_vars(l \in DOMAIN loops /\ RunDone(l))

SpecREDFair == SpecRED /\ LoopFairness

\* The manager with one producer: a single goroutine makes every call of
\* Consumed, Served and ShouldDrop, one after another, so the order of its posts
\* is the order of its steps; it posts nothing while it waits in ShouldDrop.
NextOneProducer ==
    \/ pc[1] = "idle" /\ cmConsumed(1)
    \/ pc[1] = "idle" /\ cmServed
    \/ cmShouldDrop(1, 1)
    \/ cmShouldDropReturn(1)
    \/ (running \/ Len(loops) < REDStarts) /\ Start
    \/ RunLoops
    \/ Tick

SpecOneProducer == InitRED /\ [][NextOneProducer]_vars

\* Fair scheduling of the manager with its one producer: the manager is started;
\* a loop whose context is cancelled exits; a loop that keeps finding a query
\* ready takes it in the end, select choosing at random; a ShouldDrop whose reply
\* has come returns.
AnswerFairness ==
    /\ WF_vars((running \/ Len(loops) < REDStarts) /\ Start)
    /\ LoopFairness
    /\ \A l \in 1..MaxStarts : SF_vars(l \in DOMAIN loops /\ RunQuery(l))
    /\ WF_vars(cmShouldDropReturn(1))

SpecAnswer == SpecOneProducer /\ AnswerFairness

\* The manager started, cancelled and started again, the clock standing still.
NextRestart == Producers \/ Start \/ RunLoops

SpecRestart == InitRED /\ [][NextRestart]_vars

\* The basic-admission scenario: MaxCapacity = 4, CapacityPerReservation = 2, no
\* congestion manager, one client whose calls follow one another; it releases
\* nothing until its fifth call has returned, and calls once more after a release.
InitBasic ==
    /\ NewElasticRateLimiter(4, 2, "nil", NilCounter, NilCounter)
    /\ InitCallers(<<>>)
    /\ NewREDCongestionManager(Second, 1)

Granted == Cardinality({i \in DOMAIN log : log[i] = "guard"})
Outstanding == SumOver(guards, Queues)

NextBasic ==
    \/ \E q \in ResQueues : FillTake(q) \/ FillPut(q)
    \/ /\ Len(log) < 5 \/ (Len(log) = 5 /\ Outstanding < Granted)
       /\ Call(1, 1)
    \/ ConsumeOpen(1) \/ ConsumeOnClose(1) \/ ConsumeBlocking(1)
    \/ ConsumeReserved(1) \/ ConsumeShared(1)
    \/ /\ Len(log) >= 5 /\ pc[1] = "idle"
       /\ \E q \in Queues : Release(q)

SpecBasic == InitBasic /\ [][NextBasic]_vars

\* A goroutine parked on a channel operation is served by the next matching
\* operation on that channel (the runtime queues the waiters), and a runnable
\* goroutine is eventually run: strong fairness of every transfer step.
TransferFairness ==
    \A q \in ResQueues :
        /\ SF_vars(FillTake(q)) /\ SF_vars(FillPut(q))
        /\ SF_vars(DrainTake(q)) /\ SF_vars(DrainPut(q))

\* openReservation and closeReservation called on their own, no ConsumeCapacity.
NextOpenClose ==
    \/ \E c \in Clients : DirectOpen(c) \/ DirectClose(c)
    \/ \E q \in ResQueues : FillTake(q) \/ FillPut(q) \/ DrainTake(q) \/ DrainPut(q)

SpecOpenClose == Init /\ [][NextOpenClose]_vars /\ TransferFairness

\* A caller inside ConsumeCapacity is a goroutine too: it takes its next step, and
\* its blocking take is served when a token comes.
CallerFairness ==
    \A t \in 1..FairCallers :
        /\ WF_vars(ConsumeOpen(t)) /\ WF_vars(ConsumeOnClose(t))
        /\ WF_vars(ConsumeReserved(t)) /\ WF_vars(ConsumeShared(t))
        /\ SF_vars(ConsumeBlocking(t))

\* The limiter without a congestion manager under fair scheduling of its
\* goroutines; nothing obliges a client to call, to release or to disconnect.
NextFair == NextERL(1..FairCallers, 1..FairClients)

SpecFair == Init /\ [][NextFair]_vars /\ TransferFairness /\ CallerFairness

\* every outstanding guard is released in the end
ReleaseFairness == \A q \in Queues : WF_vars(Release(q))

\* The same limiter whose guards are all released in the end.
SpecFairReleased == SpecFair /\ ReleaseFairness

\* ----------------------------------------------------------- clientLock
\* the processes that take clientLock: a ConsumeCapacity caller, a client's
\* OnClose callback, a caller of Enable/DisableCongestionControl
CallerId(t) == <<"caller", t>>
CloserId(c) == <<"close", c>>
TogglerId == <<"toggle">>
Holders == {CallerId(t) : t \in Callers} \cup {CloserId(c) : c \in Clients} \cup {TogglerId}

\* clientLock.RLock() / clientLock.Lock() can proceed
CanRLock == clientLock.w = <<>>
CanLock == clientLock.w = <<>> /\ clientLock.r = {}

\* caller t holds clientLock neither way
Free(t) == clientLock.w # CallerId(t) /\ t \notin clientLock.r

\* ConsumeCapacity from erl.clientLock.RLock() to just before RUnlock()
CallLocked(t, c) ==
    /\ Free(t)
    /\ CanRLock
    /\ CallWith(t, c, [clientLock EXCEPT !.r = @ \cup {t}])

\* erl.clientLock.RUnlock()
RUnlock(t) ==
    /\ t \in clientLock.r
    /\ clientLock' = [clientLock EXCEPT !.r = @ \ {t}]
    /\ UNCHANGED <<confVars, enableCM, tokVars, mapVars, taskVars, cntVars, callVars,
                   chVars, redVars, now>>

\* openReservation from erl.clientLock.Lock() to just before its Unlock()
OpenLocked(t) ==
    /\ Free(t)
    /\ CanLock
    /\ ConsumeOpenWith(t, [clientLock EXCEPT !.w = CallerId(t)])

\* closeReservation from erl.clientLock.Lock() to just before its Unlock()
CloseLocked(c) ==
    /\ CanLock
    /\ CloseReservationWith(c, [clientLock EXCEPT !.w = CloserId(c)])

\* Enable/DisableCongestionControl from Lock() to just before Unlock()
ToggleLocked(b) ==
    /\ CanLock
    /\ SetCongestionControlWith(b, [clientLock EXCEPT !.w = TogglerId])

\* an Unlock that a caller reaches only after its blocking take
UnlockAfterTake(h) ==
    /\ clientLock.w = h
    /\ \A t \in Callers : h = CallerId(t) => pc[t] \notin {"onclose", "blocking"}
    /\ clientLock' = [clientLock EXCEPT !.w = <<>>]
    /\ UNCHANGED <<confVars, enableCM, tokVars, mapVars, taskVars, cntVars, callVars,
                   chVars, redVars, now>>

\* erl.clientLock.Unlock() by the process h that holds it
Unlock(h) ==
    /\ clientLock.w = h
    /\ clientLock' = [clientLock EXCEPT !.w = <<>>]
    /\ UNCHANGED <<confVars, enableCM, tokVars, mapVars, taskVars, cntVars, callVars,
                   chVars, redVars, now>>

\* The limiter with the RED manager attached and every locked section of
\* clientLock in two steps: the lock taken and the section run, the lock released.
NextLock ==
    \/ \E q \in Queues : Release(q)
    \/ \E q \in ResQueues : FillTake(q) \/ FillPut(q) \/ DrainTake(q) \/ DrainPut(q)
    \/ \E c \in 1..CMClients : CloseLocked(c)
    \/ \E b \in BOOLEAN : ToggleLocked(b)
    \/ \E h \in Holders : Unlock(h)
    \/ \E t \in 1..CMCallers : \E c \in 1..CMClients : CallLocked(t, c)
    \/ \E t \in 1..CMCallers : RUnlock(t) \/ OpenLocked(t)
    \/ \E t \in 1..CMCallers :
          /\ Free(t)
          /\ \/ ConsumeOnClose(t) \/ ConsumeBlocking(t)
             \/ ConsumeReserved(t) \/ ConsumeShared(t)
             \/ ConsumeNotify(t) \/ ConsumeQuery(t) \/ ConsumeReply(t)
    \/ (running \/ Len(loops) < CMStarts) /\ Start
    \/ \E l \in DOMAIN loops : Cancel(l) \/ RunDone(l) \/ RunQuery(l)

SpecLock == InitCM /\ [][NextLock]_vars

\* The limiter whose guards are copied, so that one guard is released twice.
NextMisuse ==
    \/ NextERL(1..FairCallers, 1..FairClients)
    \/ \E q \in Queues : CopyGuard(q)

SpecMisuse == Init /\ [][NextMisuse]_vars

\* ------------------------------------------------------------------ claims

\* C1. Token conservation: the tokens in sharedCapacity, in every reservation queue
\* (mapped or not), in outstanding guards and in flight add up to MaxCapacity.
C1_TokenConservation ==
    SumOver(chan, Queues) + SumOver(guards, Queues) + InFlight = MaxCapacity

\* a drain goroutine holds a token of a queue that is no longer in the map while
\* a guard taken from that queue is still outstanding
C1_Witness ==
    \E q \in ResQueues : drain[q].pc = "put" /\ guards[q] > 0

\* C2. Overprovisioning bound: CapacityPerReservation x |capacityByClient| <= MaxCapacity.
C2_OverprovisioningBound ==
    CapacityPerReservation * Cardinality(Reservations) <= MaxCapacity

\* the bound is met with equality by two reservations
C2_Witness ==
    /\ CapacityPerReservation > 0
    /\ Cardinality(Reservations) = 2
    /\ CapacityPerReservation * Cardinality(Reservations) = MaxCapacity

\* C3. Reservation isolation: without a congestion manager, a call for a client
\* that has a reservation of which fewer than CapacityPerReservation guards are
\* outstanding (when its take from the reservation failed, and still when it
\* returns) does not return an error.
C3_ReservationIsolation ==
    [][\A t \in Callers :
          (/\ cm = "nil"
           /\ pc[t] = "shared"
           /\ pc'[t] = "idle"
           /\ capacityByClient[cl[t]] = cq[t]
           /\ held[t] < CapacityPerReservation
           /\ guards[cq[t]] < CapacityPerReservation)
          => ret'[t] = "guard"]_vars

\* C4. No congestion drop before the reservation is exhausted: when a call returns
\* the congestion-drop error, all CapacityPerReservation tokens of the queue it
\* tried are outstanding as guards (when its take failed, or when it returns).
C4_DropOnlyWhenExhausted ==
    [][\A t \in Callers :
          (pc[t] = "reply" /\ ret'[t] = "errCongestion")
          => (held[t] = CapacityPerReservation
              \/ guards[cq[t]] = CapacityPerReservation)]_vars

\* C5. Over-subscription: when one more reservation would exceed MaxCapacity,
\* openReservation for a client without one fails, and the call returns the error
\* leaving queues, guards, map, callbacks and goroutines as they were.
C5_OverSubscriptionRefused ==
    [][\A t \in Callers :
          (/\ pc[t] = "open"
           /\ pc'[t] # "open"
           /\ capacityByClient[cl[t]] = NoQ
           /\ CapacityPerReservation * (Cardinality(Reservations) + 1) > MaxCapacity)
          => (/\ pc'[t] = "idle"
              /\ ret'[t] = "errNoReservationCapacity"
              /\ UNCHANGED <<tokVars, mapVars, taskVars>>)]_vars

\* a first-time call was refused while another client holds the last reservation
C5_Witness ==
    /\ \E t \in Callers : ret[t] = "errNoReservationCapacity"
    /\ CapacityPerReservation > 0
    /\ Reservations # {}
\* C6. Basic admission: in the scenario of SpecBasic the first four calls return
\* guards, the fifth returns the no-capacity error, and the retry after one
\* release returns a guard, however the calls interleave with the fill goroutine.
C6_BasicAdmission ==
    \A i \in DOMAIN log : log[i] = IF i = 5 THEN "errNoCapacity" ELSE "guard"
\* no transfer goroutine is still at work
TasksFinished ==
    \A q \in ResQueues : fill[q].pc \in {"none", "done"} /\ drain[q].pc \in {"none", "done"}

\* C7. Open/close round trip: with no consume in between, once every reservation
\* opened has been closed the goroutines finish (unless a reservation is opened
\* again), and when they have, sharedCapacity holds its initial MaxCapacity tokens
\* and no client has a map entry.
C7_OpenCloseRoundTrip ==
    /\ [][\A q \in ResQueues :
             (drain[q].pc = "none" /\ drain'[q].pc # "none")
             => \A c \in Clients : capacityByClient'[c] # q]_vars
    /\ []((Reservations = {} /\ TasksFinished) => sharedCapacity = MaxCapacity)
    /\ (Reservations = {}) ~> (TasksFinished \/ Reservations # {})

\* a reservation of at least one token was opened, closed, filled and drained
C7_Witness ==
    /\ CapacityPerReservation > 0
    /\ Reservations = {}
    /\ TasksFinished
    /\ \E q \in ResQueues : fill[q].pc = "done" /\ drain[q].pc = "done"
\* the drain goroutine of queue q has been started and has not finished
Draining(q) == drain[q].pc \in {"take", "put"}

\* C8 as stated. Close with outstanding guards: the drain goroutine does not
\* finish while a guard of its queue is outstanding, it finishes having moved
\* exactly CapacityPerReservation tokens, and under fair scheduling it finishes
\* once every guard taken from its queue has been released.
C8_DrainFinishesOnceReleased ==
    /\ [](\A q \in ResQueues : drain[q].pc = "done" =>
              /\ guards[q] = 0
              /\ drain[q].i = CapacityPerReservation)
    /\ \A q \in ResQueues :
          []((Draining(q) /\ guards[q] > 0) =>
                [](guards[q] = 0 => <>(drain[q].pc = "done" \/ guards[q] > 0)))

\* C8 as amended: the same, the drain finishing once every guard taken from its
\* queue has been released, the queue's fill goroutine has finished and no call
\* that looked the queue up is still under way.
C8_DrainFinishesOnceFilledAndReleased ==
    /\ [](\A q \in ResQueues : drain[q].pc = "done" =>
              /\ guards[q] = 0
              /\ chan[q] = 0
              /\ fill[q].pc = "done"
              /\ drain[q].i = CapacityPerReservation)
    /\ \A q \in ResQueues :
          (/\ Draining(q)
           /\ guards[q] = 0
           /\ fill[q].pc = "done"
           /\ \A t \in Callers : cq[t] # q)
          ~> (drain[q].pc = "done")

\* a drain goroutine waits on an empty queue whose guard is still outstanding
C8_Witness ==
    \E q \in ResQueues :
        /\ drain[q].pc = "take"
        /\ chan[q] = 0
        /\ guards[q] > 0
        /\ fill[q].pc = "done"
\* a run goroutine of the manager is alive
LoopLive == \E l \in DOMAIN loops : loops[l].pc = "run"

\* the positions of a call that found its client's reservation entry
OnExistingPath(t) == pc[t] \in {"reserved", "query", "reply", "shared", "consumed"}

\* the next step of caller t on that path
ExistingPathStep(t) ==
    \/ ConsumeReserved(t) \/ ConsumeQuery(t) \/ ConsumeReply(t)
    \/ ConsumeShared(t) \/ ConsumeNotify(t)

\* C9. ConsumeCapacity suspends only on the first-time path: a call for a client
\* that already has a reservation entry is never blocked waiting on another
\* process, its next step can always be taken, also with a congestion manager
\* attached and enabled whose run loop is not running.
C9_ExistingPathNeverBlocks ==
    \A t \in Callers :
        (OnExistingPath(t) /\ ~LoopLive) => ENABLED ExistingPathStep(t)
\* C10. First-time admission terminates: for every allowed construction, a
\* first-time ConsumeCapacity whose openReservation succeeded returns in the end
\* (a blocking take can only return a guard), under fair scheduling and every
\* outstanding guard being released, the client not closing meanwhile.
C10_FirstTimeAdmissionTerminates ==
    \A t \in Callers :
        (pc[t] = "blocking") ~> (\/ pc[t] = "idle"
                                 \/ \E q \in ResQueues : q = cq[t] /\ drain[q].pc # "none")
\* C11. Congestion toggle: a call returns the congestion-drop error only with a
\* manager attached, the call's snapshot of enableCM true, the reservation take
\* failed and ShouldDrop having answered true; with the snapshot false the manager
\* is not queried and the call goes on to the shared-pool take, which gives a
\* guard if a token is there and the no-capacity error if not.
C11_CongestionToggle ==
    /\ [](\A t \in Callers : pc[t] \in {"query", "reply"} => cm # "nil" /\ cen[t])
    /\ [][\A t \in Callers :
            /\ (pc[t] # "idle" /\ pc'[t] = "idle" /\ ret'[t] = "errCongestion")
               => (cm # "nil" /\ cen[t] /\ pc[t] = "reply" /\ reply[t] = "drop")
            /\ (pc[t] # "query" /\ pc'[t] = "query")
               => (pc[t] = "reserved" /\ ~CanTake(cq[t]))
            /\ (pc[t] # "reply" /\ pc'[t] = "reply") => pc[t] = "query"
            /\ (pc[t] = "reserved" /\ pc'[t] # "reserved" /\ ~CanTake(cq[t]) /\ ~cen[t])
               => (pc'[t] = "shared" /\ shouldDropQueries' = shouldDropQueries)
            /\ (pc[t] = "shared" /\ pc'[t] # "shared")
               => IF CanTake(SharedQ)
                    THEN guards'[SharedQ] = guards[SharedQ] + 1
                    ELSE ret'[t] = "errNoCapacity" /\ guards' = guards]_vars

\* a call was congestion-dropped on its snapshot, the flag switched off since
C11_Witness == \E t \in Callers : ret[t] = "errCongestion" /\ ~enableCM
\* C12. The manager's producers never block on a full channel: Consumed, Served
\* and ShouldDrop can always take their select; on a full event channel Consumed
\* and Served drop the event and change nothing, on a full query channel
\* ShouldDrop returns false and enqueues nothing; the loop running or not.
C12_ProducersNeverBlock ==
    /\ [](/\ ENABLED cmServed
          /\ \A c \in 1..REDClients : ENABLED cmConsumed(c)
          /\ \A t \in 1..REDCallers : \A c \in 1..REDClients :
                pc[t] = "idle" => ENABLED cmShouldDrop(t, c))
    /\ [][/\ \A c \in 1..REDClients :
                (cmConsumed(c) /\ Len(consumed) >= ChanCap) => UNCHANGED vars
          /\ (cmServed /\ Len(served) >= ChanCap) => UNCHANGED vars
          /\ \A t \in 1..REDCallers : \A c \in 1..REDClients :
                (cmShouldDrop(t, c) /\ Len(shouldDropQueries) >= ChanCap)
                => /\ ret'[t] = "false" /\ pc'[t] = "idle"
                   /\ UNCHANGED <<chVars, redVars>>]_vars

\* the three channels are full, no loop is running, and a ShouldDrop has
\* returned false while another caller's query sits in the channel
C12_Witness ==
    /\ ~running
    /\ Len(consumed) = ChanCap /\ Len(served) = ChanCap
    /\ Len(shouldDropQueries) = ChanCap
    /\ \E t \in 1..REDCallers : pc[t] = "idle" /\ ret[t] = "false"
\* the run goroutines that are in their loop, receiving from the channels
Receiving == {l \in DOMAIN loops : loops[l].pc = "run"}

\* C13. Start is idempotent: whatever the interleaving of Start calls,
\* cancellations and later Start calls, at most one run loop is receiving from
\* the channels at any time, and no loop is spawned while running is true.
C13_StartIdempotent ==
    /\ [](Cardinality(Receiving) <= 1)
    /\ [](Receiving # {} => running)
    /\ [][running => Len(loops') <= Len(loops)]_vars

\* a second loop runs, started after the first was cancelled and left
C13_Witness ==
    /\ Len(loops) = 2
    /\ loops[1].pc = "done"
    /\ loops[2].pc = "run"
\* C14. Cancellation: once the context given to Start is cancelled the run loop
\* exits in the end, under fair scheduling and also while events and queries
\* keep arriving; its exiting iteration recomputes the target rate from the
\* pruned lists and stores targetRate, consumedByClient and serves in the
\* manager's fields, and running is false after it.
C14_CancellationExits ==
    /\ \A l \in 1..MaxStarts :
          (l \in DOMAIN loops /\ loops[l].cancelled)
          ~> (l \in DOMAIN loops /\ loops[l].pc = "done")
    /\ [][\A l \in DOMAIN loops :
            (loops[l].pc = "run" /\ loops'[l].pc = "done")
            => /\ loops[l].cancelled
               /\ running' = FALSE
               /\ cmFields' = [targetRate |-> Refresh(loops[l]).targetRate,
                               consumedByClient |-> Refresh(loops[l]).consumedByClient,
                               serves |-> Refresh(loops[l]).serves]]_vars

\* a loop has exited off its refresh tick and left a target rate that is not
\* zero in the manager's fields, an event waiting in a channel
C14_Witness ==
    /\ \E l \in DOMAIN loops : loops[l].pc = "done"
    /\ ~running
    /\ ~FIsZero(cmFields.targetRate)
    /\ consumed # <<>>
\* the float64 values tried as a target rate: 0, NaN, +Inf and ordinary ones
Rates == {[n |-> a, d |-> b] : a \in 0..2, b \in 0..2}

\* the timestamp lists tried: every list of at most two timestamps
Stamps == UNION {[1..k -> 0..MaxTime] : k \in 0..2}

\* ts has a timestamp later than now - window
SeenInWindow(ts) == \E i \in DOMAIN ts : ts[i] > now - window

\* C15. Never-seen safety: a ShouldDrop query that the loop answers for a client
\* with no consumed timestamp later than now - window, a client absent from
\* consumedByClient included, is answered false, for every target rate and
\* every random draw.
C15_NeverSeenNotDropped ==
    /\ [](\A ts \in Stamps : ~SeenInWindow(ts) =>
             \A T \in Rates : \A r \in Draws :
                 ~shouldDrop(T, prune(ts, now - window), r))
    /\ [][\A l \in DOMAIN loops : \A t \in 1..REDCallers :
            (/\ reply[t] = "none" /\ reply'[t] # "none"
             /\ loops[l].pc = "run"
             /\ ~SeenInWindow(Lists(loops[l].consumedByClient,
                                    Head(shouldDropQueries).c)))
            => reply'[t] = "pass"]_vars

\* a query has been answered false for a client whose list held only timestamps
\* older than the window: the answer left the list empty in the loop's map
C15_Witness ==
    \E l \in DOMAIN loops : \E t \in 1..REDCallers : \E c \in 1..REDClients :
        /\ reply[t] = "pass"
        /\ c \in DOMAIN loops[l].consumedByClient
        /\ loops[l].consumedByClient[c] = <<>>
\* C16. Zero target rate: with the loop's targetRate 0 and at least one arrival
\* of the queried client in the window, shouldDrop returns true for every draw.
C16_ZeroTargetDrops ==
    /\ [](\A ts \in Stamps : SeenInWindow(ts) =>
             \A T \in Rates : FIsZero(T) =>
                 \A r \in Draws : shouldDrop(T, prune(ts, now - window), r))
    /\ [][\A l \in DOMAIN loops : \A t \in 1..REDCallers :
            (/\ reply[t] = "none" /\ reply'[t] # "none"
             /\ loops[l].pc = "run"
             /\ FIsZero(loops[l].targetRate)
             /\ SeenInWindow(Lists(loops[l].consumedByClient,
                                   Head(shouldDropQueries).c)))
            => reply'[t] = "drop"]_vars

\* a query has been answered true by a loop whose target rate is zero
C16_Witness ==
    \E l \in DOMAIN loops : \E t \in 1..REDCallers :
        /\ reply[t] = "drop"
        /\ loops[l].pc = "run"
        /\ FIsZero(loops[l].targetRate)
        /\ loops[l].serves = <<>>
\* a list of k arrivals
Arrivals(k) == [i \in 1..k |-> 0]

\* the target rates of the loops together with the rates tried
LoopRates == Rates \cup {loops[l].targetRate : l \in DOMAIN loops}

\* C17. RED monotonicity: for a fixed targetRate > 0 and a fixed draw r, if
\* shouldDrop returns true for a client with n arrivals in the window then it
\* returns true for every arrival count n' >= n (exp is 4, as constructed).
C17_DropMonotone ==
    \A T \in LoopRates : FGt(T, F(0)) =>
        \A r \in Draws : \A n \in 0..MaxArrivals : \A m \in n..MaxArrivals :
            shouldDrop(T, Arrivals(n), r) => shouldDrop(T, Arrivals(m), r)

\* a running loop with a positive target rate has answered a query true, and for
\* its window some rate and draw let a client with few arrivals pass and drop
\* one with more
C17_Witness ==
    /\ \E l \in DOMAIN loops : \E t \in 1..REDCallers :
          /\ loops[l].pc = "run"
          /\ FGt(loops[l].targetRate, F(0))
          /\ reply[t] = "drop"
    /\ \E T \in LoopRates : \E r \in Draws : \E n \in 1..MaxArrivals :
          /\ FGt(T, F(0))
          /\ ~shouldDrop(T, Arrivals(n), r)
          /\ shouldDrop(T, Arrivals(MaxArrivals), r)
\* C18. Release is a non-blocking put into the guard's originating queue: with
\* room in that queue it adds exactly one token to it and returns nil, undoing
\* the consume and changing no other queue nor the map; with the queue full it
\* returns an error and changes nothing.
C18_ReleasePutsBack ==
    [][\A q \in Queues :
          (guards'[q] = guards[q] - 1)
          => /\ IF CanPut(q)
                  THEN /\ chan' = [chan EXCEPT ![q] = @ + 1]
                       /\ releaseFailed' = releaseFailed
                  ELSE /\ chan' = chan
                       /\ releaseFailed'
             /\ UNCHANGED <<mapVars, taskVars, callVars, chVars, redVars>>]_vars

\* a Release has found its queue full and returned an error, and the queues
\* hold all the tokens there are
C18_Witness ==
    /\ releaseFailed
    /\ SumOver(chan, Queues) = MaxCapacity
    /\ MaxCapacity > 0
\* C19. Release never overflows in correct use: every guard released at most
\* once, under any interleaving of consumes, opens, closes and the transfer
\* goroutines no Release returns an error (each outstanding guard has room
\* waiting in its queue), and a transfer goroutine at its blocking put finds room.
C19_ReleaseNeverOverflows ==
    /\ ~releaseFailed
    /\ \A q \in Queues : guards[q] > 0 => chan[q] + guards[q] <= QCap(q)
    /\ \A q \in ResQueues : fill[q].pc = "put" => CanPut(q)
    /\ \A q \in ResQueues : drain[q].pc = "put" => CanPut(SharedQ)

\* the guards of a closed reservation are all that is missing from its queue,
\* while the drain goroutine of another queue is at its put
C19_Witness ==
    \E q \in ResQueues : \E p \in ResQueues :
        /\ guards[q] > 0
        /\ chan[q] + guards[q] = QCap(q)
        /\ drain[q].pc = "take"
        /\ drain[p].pc = "put"
\* C20. Lock discipline and deadlock freedom: no process holds clientLock while
\* it is at a blocking queue operation or waits for a ShouldDrop reply, the
\* transfer goroutines hold no lock (the holders are callers, OnClose callbacks
\* and togglers only), and so clientLock is never held by a process that cannot
\* go on to release it: no state has every process blocked on clientLock.
C20_LockDiscipline ==
    /\ \A t \in Callers : pc[t] \in {"blocking", "reply", "asked"} => Free(t)
    /\ clientLock.w \in Holders \cup {<<>>}
    /\ clientLock.r \subseteq Callers
    /\ clientLock.w # <<>> => ENABLED Unlock(clientLock.w)
    /\ \A t \in clientLock.r : ENABLED RUnlock(t)
    /\ CanLock => \A t \in 1..CMCallers : pc[t] = "open" => ENABLED OpenLocked(t)

\* a caller waits at its blocking take on an empty queue, or for a ShouldDrop
\* reply, while another process holds clientLock for writing
C20_Witness ==
    \E t \in Callers :
        /\ \/ pc[t] = "blocking" /\ ~CanTake(cq[t])
           \/ pc[t] = "reply" /\ reply[t] = "none"
        /\ clientLock.w # <<>>
\* C21. Reservation entries are unique per client: of two ConsumeCapacity calls
\* racing for a client without a reservation, one creates the map entry and
\* spawns the one fill goroutine; the other's openReservation fails with the
\* already-reserved error, that call returns the error and changes no state.
C21_ReservationUnique ==
    /\ [](/\ \A c \in Clients : \A d \in Clients :
                (c # d /\ capacityByClient[c] # NoQ)
                => capacityByClient[c] # capacityByClient[d]
          /\ Cardinality({q \in ResQueues : fill[q].pc # "none"}) = nq)
    /\ [][\A t \in Callers :
            (pc[t] = "open" /\ pc'[t] # "open")
            => IF capacityByClient[cl[t]] # NoQ
                 THEN /\ pc'[t] = "idle" /\ ret'[t] = "errAlreadyReserved"
                      /\ UNCHANGED <<tokVars, mapVars, taskVars>>
                 ELSE (pc'[t] = "onclose")
                      => /\ nq' = nq + 1
                         /\ capacityByClient' =
                               [capacityByClient EXCEPT ![cl[t]] = nq + 1]
                         /\ fill' = [fill EXCEPT ![nq + 1] = TaskAt(0)]]_vars

\* a call lost the race for its client's reservation and returned the error,
\* the winner's reservation being the only queue made
C21_Witness ==
    \E t \in Callers :
        /\ ret[t] = "errAlreadyReserved"
        /\ nq = 1
        /\ Cardinality(Reservations) = 1
\* the calls so far that returned r
Returned(r) == Cardinality({i \in DOMAIN log : log[i] = r})

\* C22. Counters match outcomes: congestionControlCounter is incremented exactly
\* once for each ConsumeCapacity call that returns the congestion-drop error and
\* never otherwise; noCapacityCounter exactly once for each call whose
\* non-blocking take from the shared pool failed and never otherwise, so not
\* when a first-time reservation cannot be opened.
C22_CountersMatchOutcomes ==
    /\ congestionControlCounter = Returned("errCongestion")
    /\ noCapacityCounter = Returned("errNoCapacity")

\* each error has been returned: one congestion drop, one shared-pool failure,
\* one reservation that could not be opened
C22_Witness ==
    /\ Returned("errCongestion") = 1
    /\ Returned("errNoCapacity") = 1
    /\ Returned("errNoReservationCapacity") = 1
\* the event caller t hands to cm.Consumed
ConsumedEvent(t) == [c |-> cl[t], t |-> ct[t]]

\* C23 as stated: a call that took a token from its reservation or from the
\* shared pool has put exactly one consumed event for its client on the channel
\* when it returns the guard.
C23_ExactlyOneEventPosted ==
    [][\A t \in Callers :
          (pc[t] = "consumed" /\ pc'[t] = "idle")
          => consumed' = Append(consumed, ConsumedEvent(t))]_vars

\* C23. Consumed notification: with a congestion manager attached, a call that
\* takes a token from an existing reservation or from the shared pool calls
\* Consumed exactly once for that client before returning the guard, the event
\* going on the channel unless the channel is full, when it is dropped; a call
\* that returns an error posts none, and nothing else posts a consumed event.
C23_ConsumedNotification ==
    [][/\ \A t \in Callers :
            /\ (cm # "nil" /\ pc[t] \in {"reserved", "shared"}
                    /\ pc'[t] # pc[t] /\ chan' # chan)
               => (pc'[t] = "consumed" /\ ct'[t] = now /\ consumed' = consumed)
            /\ (pc[t] = "consumed" /\ pc'[t] # "consumed")
               => /\ pc'[t] = "idle" /\ ret'[t] = "guard"
                  /\ consumed' = IF Len(consumed) < ChanCap
                                   THEN Append(consumed, ConsumedEvent(t))
                                   ELSE consumed
            /\ (pc[t] \notin {"idle", "consumed", "blocking"} /\ pc'[t] = "idle")
               => (ret'[t] # "guard" /\ consumed' = consumed)
       /\ Len(consumed') > Len(consumed)
          => \E t \in Callers : pc[t] = "consumed" /\ pc'[t] = "idle"]_vars

\* a call has returned its guard and its event waits on the channel
C23_Witness ==
    \E t \in Callers :
        /\ pc[t] = "idle" /\ ret[t] = "guard"
        /\ consumed = <<[c |-> 1, t |-> 0]>>
        /\ \E q \in Queues : guards[q] > 0
\* a == b for float64 values: NaN equals nothing, +Inf only +Inf
FEq(a, b) ==
    IF a.d = 0 \/ b.d = 0 THEN a.d = 0 /\ b.d = 0 /\ a.n > 0 /\ b.n > 0
    ELSE a.n * b.d = b.n * a.d

\* loop l runs one iteration in this step: it receives from a channel or takes
\* the ctx.Done() case
Iteration(l) ==
    /\ loops[l].pc = "run"
    /\ \/ Len(consumed') < Len(consumed)
       \/ Len(served') < Len(served)
       \/ Len(shouldDropQueries') < Len(shouldDropQueries)
       \/ loops'[l].pc = "done"

\* what the iteration leaves: the loop's locals, or on exit the fields it set
AfterIteration(l) == IF loops'[l].pc = "done" THEN cmFields' ELSE loops'[l]

\* the window in seconds
WindowInSeconds == [n |-> window, d |-> Second]

\* C24. Target-rate refresh: the loop recomputes targetRate exactly on the
\* iterations where tick = (tick+1) mod targetRateRefreshTicks is 0 and on the
\* exiting iteration, and leaves it unchanged on every other; after a recompute
\* no client with an empty timestamp list remains in consumedByClient, and
\* targetRate = 0 if no client remains, otherwise (number of serves in the
\* window / window in seconds) / (number of remaining clients).
C24_TargetRateRefresh ==
    [][\A l \in DOMAIN loops :
          Iteration(l)
          => LET after == AfterIteration(l)
                 n == Cardinality(DOMAIN after.consumedByClient)
             IN  IF (loops[l].tick + 1) % targetRateRefreshTicks = 0
                        \/ loops'[l].pc = "done"
                   THEN /\ \A c \in DOMAIN after.consumedByClient :
                              after.consumedByClient[c] # <<>>
                        /\ IF n = 0 THEN FIsZero(after.targetRate)
                           ELSE FEq(after.targetRate,
                                    FDiv(FDiv(F(Len(after.serves)), WindowInSeconds),
                                         F(n)))
                   ELSE after.targetRate = loops[l].targetRate]_vars
\* the lists and cutoffs prune is tried on
PruneLists == UNION {[1..k -> 0..MaxTime] : k \in 0..MaxPrune}
PruneCutoffs == (0 - MaxWindow)..MaxTime
NonDecreasing(ts) == \A i \in DOMAIN ts : \A j \in DOMAIN ts : i <= j => ts[i] <= ts[j]
\* the elements of ts later than cutoff, in their order
LaterThan(ts, cutoff) == LET Later(t) == t > cutoff IN SelectSeq(ts, Later)

\* prune on every list and cutoff tried
PruneExact ==
    \A cutoff \in PruneCutoffs :
        /\ pruneCall(<<>>, cutoff).n = 0
        /\ \A ts \in PruneLists :
              NonDecreasing(ts)
              => LET r == pruneCall(<<ts>>, cutoff)
                 IN  /\ r.ts = <<LaterThan(ts, cutoff)>>
                     /\ r.n = Len(LaterThan(ts, cutoff))
                     /\ (\A i \in DOMAIN ts : ts[i] <= cutoff)
                        => (r.ts = << <<>> >> /\ r.n = 0)

\* C25. prune(list, cutoff): for a list with non-decreasing timestamps the
\* result is exactly the elements with ts strictly greater than cutoff, in their
\* original order, and the returned value is the new length; for a nil list it
\* returns 0; when no element is later than cutoff the list becomes empty and 0
\* is returned.  The loop's query step leaves the queried client's list so.
C25_Prune ==
    /\ []PruneExact
    /\ [][\A l \in DOMAIN loops : \A c \in 1..REDClients :
            (/\ loops[l].pc = "run"
             /\ Len(shouldDropQueries') < Len(shouldDropQueries)
             /\ Head(shouldDropQueries).c = c
             /\ c \in DOMAIN loops[l].consumedByClient
             /\ c \in DOMAIN loops'[l].consumedByClient
             /\ NonDecreasing(loops[l].consumedByClient[c]))
            => loops'[l].consumedByClient[c] =
                  LaterThan(loops[l].consumedByClient[c], now - window)]_vars

\* a query's prune has cut a client's list down to nothing: the clock is past
\* the window and the client is still in the map of a running loop
C25_Witness ==
    \E l \in DOMAIN loops :
        /\ loops[l].pc = "run"
        /\ now - window >= 0
        /\ 1 \in DOMAIN loops[l].consumedByClient
        /\ Len(loops[l].consumedByClient[1]) = 0
\* C26. Timestamp lists are monotone: in every reachable state of the run loop
\* each client's list in consumedByClient and the serves list are in
\* non-decreasing timestamp order, also when several goroutines call
\* ConsumeCapacity for the same client concurrently, each reading its timestamp
\* before its non-blocking put on the channel.
C26_ListsMonotone ==
    \A l \in DOMAIN loops :
        /\ NonDecreasing(loops[l].serves)
        /\ \A c \in DOMAIN loops[l].consumedByClient :
              NonDecreasing(loops[l].consumedByClient[c])
\* C27. Per-producer ordering: the run loop processes the events one producer
\* posted to the RED manager in the order that producer posted them, including
\* a consumed event followed by a served event (or a ShouldDrop query) from the
\* same producer, which travel on different channels.  With every event posted
\* by the one producer: the loop takes no event while one posted at an earlier
\* time waits on another channel, and it takes the producer's query, posted
\* last since the producer waits for the reply, only with nothing else waiting.
C27_PerProducerOrder ==
    [][\A l \in DOMAIN loops :
          loops[l].pc = "run"
          => /\ Len(served') < Len(served)
                => ~(consumed # <<>> /\ Head(consumed).t < Head(served))
             /\ Len(consumed') < Len(consumed)
                => ~(served # <<>> /\ Head(served) < Head(consumed).t)
             /\ Len(shouldDropQueries') < Len(shouldDropQueries)
                => (consumed = <<>> /\ served = <<>>)]_vars
\* C28. Every accepted query is answered: whenever ShouldDrop succeeds in
\* placing its query on shouldDropQueries, the call eventually receives a reply
\* and returns, under fair scheduling, for any interleaving with Start and
\* context cancellation.
C28_AcceptedQueryAnswered == (pc[1] = "asked") ~> (pc[1] = "idle")
=============================================================================
